---- MODULE Spec2Model ----
(* State machine of the auction canister (auction_contract_backend/src/lib.rs): *)
(* the CanisterState aggregate behind the STATE static, the four update calls,  *)
(* and the pre_upgrade / post_upgrade hooks that move it through stable memory. *)
EXTENDS Integers, Sequences, FiniteSets, TLC

(* ------------------------------ bounds ---------------------------------- *)
\* list_item is offered while next_item_id < MaxItems
MaxItems == 2
\* bid amounts are drawn from 0..MaxAmount
MaxAmount == 2
\* a behaviour makes at most MaxCalls calls that change something
MaxCalls == 4
\* state-changing calls in a behaviour with calls in flight
MaxLockedCalls == 2

(* ------------------------------ inputs ---------------------------------- *)
\* Principals in their byte order (the order BTreeMap<Principal, _> iterates in)
PrincipalSeq == <<"B1", "B2", "O1">>
Principals == {PrincipalSeq[i] : i \in 1..Len(PrincipalSeq)}
PrincipalRank(p) == CHOOSE i \in 1..Len(PrincipalSeq) : PrincipalSeq[i] = p

Amounts == 0..MaxAmount
\* item ids a caller may name: every id list_item can hand out, and one unknown
ItemIds == 0..MaxItems
ListNames == {"Vase"}
ListDescriptions == {"old"}
NewNames == {"Urn"}
NewDescriptions == {"new"}

\* Option<T>: None is the empty tuple, Some(x) the one-element tuple
None == <<>>
Some(x) == <<x>>
is_some(o) == o # None
unwrap(o) == o[1]
OptionOf(S) == {None} \cup {Some(x) : x \in S}

\* the Err(String) values of the update calls, and the Ok marker
Ok == "Ok"
NotFound == "Item not found."
NotOwnerUpdate == "Only the owner can update this listing."
NotOwnerStop == "Only the owner can stop this listing."
InactiveBid == "Auction for this item is no longer active."
InactiveUpdate == "Cannot update a listing that is no longer active."
AlreadyStopped == "Listing is already stopped."
SelfBid == "Cannot bid on your own item."
BidTooLow == "Bid amount must be higher than the current highest bid."
Errors == {NotFound, NotOwnerUpdate, NotOwnerStop, InactiveBid, InactiveUpdate,
           AlreadyStopped, SelfBid, BidTooLow}

(* --------------------------- BTreeMap helpers ---------------------------- *)
EmptyMap == <<>>
contains_key(m, k) == k \in DOMAIN m
\* BTreeMap::insert: add the key or replace its value
insert(m, k, v) == [x \in (DOMAIN m) \cup {k} |-> IF x = k THEN v ELSE m[x]]

(* ------------------------------ the state -------------------------------- *)
VARIABLES
    state,      \* the CanisterState inside the Mutex
    stable,     \* stable memory: <<>> when empty, else the saved snapshot
    phase,      \* "running", or "upgrading" between pre_upgrade and post_upgrade
    calls,      \* number of calls so far that changed something
    accepted,   \* history: per item id, the set of bids bid_for_item accepted
    returned,   \* history: the ids list_item returned, in call order
    stopped,    \* history: per stopped item id, highest_bidder when stop_listing succeeded
    mutex,      \* the Mutex around the CanisterState is locked
    pc          \* per call in flight: "idle", at "lock" (state_mutex.lock()), or "held"

vars == <<state, stable, phase, calls, accepted, returned, stopped, mutex, pc>>

\* the initialiser of the STATE static
NewCanisterState == [items |-> EmptyMap, item_bids |-> EmptyMap, next_item_id |-> 0]

(* ------------------------------ list_item -------------------------------- *)
\* list_item that does not advance next_item_id
list_item_reuses_id(st, caller, name, description) ==
    LET item_id == st.next_item_id
        new_item == [id |-> item_id, owner |-> caller, name |-> name,
                     description |-> description, current_highest_bid |-> 0,
                     highest_bidder |-> None, active |-> TRUE, new_owner |-> None]
    IN [st |-> [items |-> insert(st.items, item_id, new_item),
                item_bids |-> insert(st.item_bids, item_id, EmptyMap),
                next_item_id |-> st.next_item_id],
        res |-> item_id]

\* list_item that does not create the bid ledger of the new item
list_item_without_ledger(st, caller, name, description) ==
    LET item_id == st.next_item_id
        new_item == [id |-> item_id, owner |-> caller, name |-> name,
                     description |-> description, current_highest_bid |-> 0,
                     highest_bidder |-> None, active |-> TRUE, new_owner |-> None]
    IN [st |-> [items |-> insert(st.items, item_id, new_item),
                item_bids |-> st.item_bids,
                next_item_id |-> st.next_item_id + 1],
        res |-> item_id]

list_item(st, caller, name, description) ==
    LET item_id == st.next_item_id
        new_item == [id |-> item_id, owner |-> caller, name |-> name,
                     description |-> description, current_highest_bid |-> 0,
                     highest_bidder |-> None, active |-> TRUE, new_owner |-> None]
    IN [st |-> [items |-> insert(st.items, item_id, new_item),
                item_bids |-> insert(st.item_bids, item_id, EmptyMap),
                next_item_id |-> st.next_item_id + 1],
        res |-> item_id]

(* ----------------------------- bid_for_item ------------------------------ *)
\* bid_for_item with the owner check moved before the active check
bid_for_item_owner_first(st, caller, item_id, amount) ==
    IF ~contains_key(st.items, item_id) THEN [st |-> st, res |-> NotFound]
    ELSE LET item == st.items[item_id] IN
      IF item.owner = caller THEN [st |-> st, res |-> SelfBid]
      ELSE IF ~item.active THEN [st |-> st, res |-> InactiveBid]
      ELSE IF amount <= item.current_highest_bid THEN [st |-> st, res |-> BidTooLow]
      ELSE
        LET item2 == [item EXCEPT !.current_highest_bid = amount,
                                  !.highest_bidder = Some(caller)]
            new_bid == [bidder |-> caller, amount |-> amount]
        IN [st |-> [st EXCEPT !.items[item_id] = item2,
                              !.item_bids[item_id] = insert(@, caller, new_bid)],
            res |-> Ok]

\* bid_for_item comparing with `<` where the code has `<=`
bid_for_item_accepts_equal(st, caller, item_id, amount) ==
    IF ~contains_key(st.items, item_id) THEN [st |-> st, res |-> NotFound]
    ELSE LET item == st.items[item_id] IN
      IF ~item.active THEN [st |-> st, res |-> InactiveBid]
      ELSE IF item.owner = caller THEN [st |-> st, res |-> SelfBid]
      ELSE IF amount < item.current_highest_bid THEN [st |-> st, res |-> BidTooLow]
      ELSE
        LET item2 == [item EXCEPT !.current_highest_bid = amount,
                                  !.highest_bidder = Some(caller)]
            new_bid == [bidder |-> caller, amount |-> amount]
        IN [st |-> [st EXCEPT !.items[item_id] = item2,
                              !.item_bids[item_id] = insert(@, caller, new_bid)],
            res |-> Ok]

\* bid_for_item recording the bid in the ledger before the amount check
bid_for_item_writes_early(st, caller, item_id, amount) ==
    IF ~contains_key(st.items, item_id) THEN [st |-> st, res |-> NotFound]
    ELSE LET item == st.items[item_id] IN
      IF ~item.active THEN [st |-> st, res |-> InactiveBid]
      ELSE IF item.owner = caller THEN [st |-> st, res |-> SelfBid]
      ELSE
        LET new_bid == [bidder |-> caller, amount |-> amount]
            st1 == [st EXCEPT !.item_bids[item_id] = insert(@, caller, new_bid)]
            item2 == [item EXCEPT !.current_highest_bid = amount,
                                  !.highest_bidder = Some(caller)]
        IN IF amount <= item.current_highest_bid THEN [st |-> st1, res |-> BidTooLow]
           ELSE [st |-> [st1 EXCEPT !.items[item_id] = item2], res |-> Ok]

\* bid_for_item without the `!item.active` rejection
bid_for_item_on_stopped(st, caller, item_id, amount) ==
    IF ~contains_key(st.items, item_id) THEN [st |-> st, res |-> NotFound]
    ELSE LET item == st.items[item_id] IN
      IF item.owner = caller THEN [st |-> st, res |-> SelfBid]
      ELSE IF amount <= item.current_highest_bid THEN [st |-> st, res |-> BidTooLow]
      ELSE
        LET item2 == [item EXCEPT !.current_highest_bid = amount,
                                  !.highest_bidder = Some(caller)]
            new_bid == [bidder |-> caller, amount |-> amount]
        IN [st |-> [st EXCEPT !.items[item_id] = item2,
                              !.item_bids[item_id] = insert(@, caller, new_bid)],
            res |-> Ok]

\* bid_for_item without the `item.owner == caller` rejection
bid_for_item_by_owner(st, caller, item_id, amount) ==
    IF ~contains_key(st.items, item_id) THEN [st |-> st, res |-> NotFound]
    ELSE LET item == st.items[item_id] IN
      IF ~item.active THEN [st |-> st, res |-> InactiveBid]
      ELSE IF amount <= item.current_highest_bid THEN [st |-> st, res |-> BidTooLow]
      ELSE
        LET item2 == [item EXCEPT !.current_highest_bid = amount,
                                  !.highest_bidder = Some(caller)]
            new_bid == [bidder |-> caller, amount |-> amount]
        IN [st |-> [st EXCEPT !.items[item_id] = item2,
                              !.item_bids[item_id] = insert(@, caller, new_bid)],
            res |-> Ok]

\* bid_for_item that raises current_highest_bid but leaves highest_bidder alone
bid_for_item_forgets_bidder(st, caller, item_id, amount) ==
    IF ~contains_key(st.items, item_id) THEN [st |-> st, res |-> NotFound]
    ELSE LET item == st.items[item_id] IN
      IF ~item.active THEN [st |-> st, res |-> InactiveBid]
      ELSE IF item.owner = caller THEN [st |-> st, res |-> SelfBid]
      ELSE IF amount <= item.current_highest_bid THEN [st |-> st, res |-> BidTooLow]
      ELSE
        LET item2 == [item EXCEPT !.current_highest_bid = amount]
            new_bid == [bidder |-> caller, amount |-> amount]
        IN [st |-> [st EXCEPT !.items[item_id] = item2,
                              !.item_bids[item_id] = insert(@, caller, new_bid)],
            res |-> Ok]

\* bid_for_item that keeps a bidder's existing ledger entry (or_insert in place
\* of insert)
bid_for_item_keeps_first(st, caller, item_id, amount) ==
    IF ~contains_key(st.items, item_id) THEN [st |-> st, res |-> NotFound]
    ELSE LET item == st.items[item_id] IN
      IF ~item.active THEN [st |-> st, res |-> InactiveBid]
      ELSE IF item.owner = caller THEN [st |-> st, res |-> SelfBid]
      ELSE IF amount <= item.current_highest_bid THEN [st |-> st, res |-> BidTooLow]
      ELSE
        LET item2 == [item EXCEPT !.current_highest_bid = amount,
                                  !.highest_bidder = Some(caller)]
            new_bid == [bidder |-> caller, amount |-> amount]
        IN [st |-> [st EXCEPT !.items[item_id] = item2,
                              !.item_bids[item_id] =
                                  IF contains_key(@, caller) THEN @
                                  ELSE insert(@, caller, new_bid)],
            res |-> Ok]

\* bid_for_item without the `amount <= item.current_highest_bid` rejection
bid_for_item_any_amount(st, caller, item_id, amount) ==
    IF ~contains_key(st.items, item_id) THEN [st |-> st, res |-> NotFound]
    ELSE LET item == st.items[item_id] IN
      IF ~item.active THEN [st |-> st, res |-> InactiveBid]
      ELSE IF item.owner = caller THEN [st |-> st, res |-> SelfBid]
      ELSE
        LET item2 == [item EXCEPT !.current_highest_bid = amount,
                                  !.highest_bidder = Some(caller)]
            new_bid == [bidder |-> caller, amount |-> amount]
        IN [st |-> [st EXCEPT !.items[item_id] = item2,
                              !.item_bids[item_id] = insert(@, caller, new_bid)],
            res |-> Ok]

bid_for_item(st, caller, item_id, amount) ==
    IF ~contains_key(st.items, item_id) THEN [st |-> st, res |-> NotFound]
    ELSE LET item == st.items[item_id] IN
      IF ~item.active THEN [st |-> st, res |-> InactiveBid]
      ELSE IF item.owner = caller THEN [st |-> st, res |-> SelfBid]
      ELSE IF amount <= item.current_highest_bid THEN [st |-> st, res |-> BidTooLow]
      ELSE
        LET item2 == [item EXCEPT !.current_highest_bid = amount,
                                  !.highest_bidder = Some(caller)]
            items2 == insert(st.items, item_id, item2)
            \* entry(item_id).or_insert_with(BTreeMap::new)
            bids1 == IF contains_key(st.item_bids, item_id) THEN st.item_bids
                     ELSE insert(st.item_bids, item_id, EmptyMap)
            new_bid == [bidder |-> caller, amount |-> amount]
            bids2 == insert(bids1, item_id, insert(bids1[item_id], caller, new_bid))
        IN [st |-> [st EXCEPT !.items = items2, !.item_bids = bids2], res |-> Ok]

(* ---------------------------- update_listing ----------------------------- *)
\* update_listing with the active check moved before the owner check
update_listing_active_first(st, caller, item_id, new_name, new_description) ==
    IF ~contains_key(st.items, item_id) THEN [st |-> st, res |-> NotFound]
    ELSE LET item == st.items[item_id] IN
      IF ~item.active THEN [st |-> st, res |-> InactiveUpdate]
      ELSE IF item.owner # caller THEN [st |-> st, res |-> NotOwnerUpdate]
      ELSE
        LET item1 == IF is_some(new_name)
                     THEN [item EXCEPT !.name = unwrap(new_name)] ELSE item
            item2 == IF is_some(new_description)
                     THEN [item1 EXCEPT !.description = unwrap(new_description)]
                     ELSE item1
        IN [st |-> [st EXCEPT !.items[item_id] = item2], res |-> Ok]

update_listing(st, caller, item_id, new_name, new_description) ==
    IF ~contains_key(st.items, item_id) THEN [st |-> st, res |-> NotFound]
    ELSE LET item == st.items[item_id] IN
      IF item.owner # caller THEN [st |-> st, res |-> NotOwnerUpdate]
      ELSE IF ~item.active THEN [st |-> st, res |-> InactiveUpdate]
      ELSE
        LET item1 == IF is_some(new_name)
                     THEN [item EXCEPT !.name = unwrap(new_name)] ELSE item
            item2 == IF is_some(new_description)
                     THEN [item1 EXCEPT !.description = unwrap(new_description)]
                     ELSE item1
        IN [st |-> [st EXCEPT !.items[item_id] = item2], res |-> Ok]

(* ----------------------------- stop_listing ------------------------------ *)
\* stop_listing with the active check moved before the owner check
stop_listing_active_first(st, caller, item_id) ==
    IF ~contains_key(st.items, item_id) THEN [st |-> st, res |-> NotFound]
    ELSE LET item == st.items[item_id] IN
      IF ~item.active THEN [st |-> st, res |-> AlreadyStopped]
      ELSE IF item.owner # caller THEN [st |-> st, res |-> NotOwnerStop]
      ELSE
        LET item1 == [item EXCEPT !.active = FALSE]
            item2 == [item1 EXCEPT !.new_owner = item1.highest_bidder]
        IN [st |-> [st EXCEPT !.items[item_id] = item2], res |-> Ok]

\* stop_listing that clears the flag but does not copy highest_bidder
stop_listing_no_snapshot(st, caller, item_id) ==
    IF ~contains_key(st.items, item_id) THEN [st |-> st, res |-> NotFound]
    ELSE LET item == st.items[item_id] IN
      IF item.owner # caller THEN [st |-> st, res |-> NotOwnerStop]
      ELSE IF ~item.active THEN [st |-> st, res |-> AlreadyStopped]
      ELSE [st |-> [st EXCEPT !.items[item_id].active = FALSE], res |-> Ok]

stop_listing(st, caller, item_id) ==
    IF ~contains_key(st.items, item_id) THEN [st |-> st, res |-> NotFound]
    ELSE LET item == st.items[item_id] IN
      IF item.owner # caller THEN [st |-> st, res |-> NotOwnerStop]
      ELSE IF ~item.active THEN [st |-> st, res |-> AlreadyStopped]
      ELSE
        LET item1 == [item EXCEPT !.active = FALSE]
            item2 == [item1 EXCEPT !.new_owner = item1.highest_bidder]
        IN [st |-> [st EXCEPT !.items[item_id] = item2], res |-> Ok]

(* --------------------- stable_save / stable_restore ---------------------- *)
\* The Candid encoding writes a BTreeMap as the sequence of its (key, value)
\* pairs in iteration (ascending key) order, a struct as its fields in turn.
u64_min(S) == CHOOSE x \in S : \A y \in S : x <= y
principal_min(S) == CHOOSE p \in S : \A q \in S : PrincipalRank(p) <= PrincipalRank(q)
remove(m, k) == [x \in (DOMAIN m) \ {k} |-> m[x]]

\* encode_item leaving new_owner out of the snapshot
encode_item_skips_new_owner(it) ==
    <<it.id, it.owner, it.name, it.description, it.current_highest_bid,
      it.highest_bidder, it.active, None>>

encode_item(it) == <<it.id, it.owner, it.name, it.description, it.current_highest_bid,
                     it.highest_bidder, it.active, it.new_owner>>
decode_item(t) == [id |-> t[1], owner |-> t[2], name |-> t[3], description |-> t[4],
                   current_highest_bid |-> t[5], highest_bidder |-> t[6],
                   active |-> t[7], new_owner |-> t[8]]
encode_bid(b) == <<b.bidder, b.amount>>
decode_bid(t) == [bidder |-> t[1], amount |-> t[2]]

\* BTreeMap<Principal, Bid>
RECURSIVE encode_bids(_)
encode_bids(m) ==
    IF DOMAIN m = {} THEN <<>>
    ELSE LET k == principal_min(DOMAIN m)
         IN <<(<<k, encode_bid(m[k])>>)>> \o encode_bids(remove(m, k))

\* Decoding collects the pairs back into a BTreeMap, one insert per pair
RECURSIVE decode_bids(_)
decode_bids(s) ==
    IF s = <<>> THEN EmptyMap
    ELSE insert(decode_bids(SubSeq(s, 1, Len(s) - 1)),
                s[Len(s)][1], decode_bid(s[Len(s)][2]))

\* BTreeMap<u64, Item>
RECURSIVE encode_items(_)
encode_items(m) ==
    IF DOMAIN m = {} THEN <<>>
    ELSE LET k == u64_min(DOMAIN m)
         IN <<(<<k, encode_item(m[k])>>)>> \o encode_items(remove(m, k))

RECURSIVE decode_items(_)
decode_items(s) ==
    IF s = <<>> THEN EmptyMap
    ELSE insert(decode_items(SubSeq(s, 1, Len(s) - 1)),
                s[Len(s)][1], decode_item(s[Len(s)][2]))

\* BTreeMap<u64, BTreeMap<Principal, Bid>>
RECURSIVE encode_item_bids(_)
encode_item_bids(m) ==
    IF DOMAIN m = {} THEN <<>>
    ELSE LET k == u64_min(DOMAIN m)
         IN <<(<<k, encode_bids(m[k])>>)>> \o encode_item_bids(remove(m, k))

RECURSIVE decode_item_bids(_)
decode_item_bids(s) ==
    IF s = <<>> THEN EmptyMap
    ELSE insert(decode_item_bids(SubSeq(s, 1, Len(s) - 1)),
                s[Len(s)][1], decode_bids(s[Len(s)][2]))

\* storage::stable_save((&*state,))
stable_save(st) == <<encode_items(st.items), encode_item_bids(st.item_bids),
                     st.next_item_id>>

\* What post_upgrade may find in stable memory, by its length: nothing at all,
\* pages that were grown but never written, the three fields stable_save
\* wrote, or content that is no CanisterState (here: of another layout).
EmptyStable == <<>>
UnwrittenStable == <<0>>
ForeignStable == <<0, 0>>
is_snapshot(bytes) == Len(bytes) = Len(stable_save(NewCanisterState))

\* storage::stable_restore::<(CanisterState,)>(): Ok(state), or Err(message).
\* The messages are the library's; each of the two texts post_upgrade looks
\* for is given to the content it names.
stable_restore(bytes) ==
    IF bytes = EmptyStable THEN [ok |-> FALSE, err |-> "stable memory is empty"]
    ELSE IF bytes = UnwrittenStable THEN [ok |-> FALSE, err |-> "empty_stream"]
    ELSE IF ~is_snapshot(bytes) THEN [ok |-> FALSE, err |-> "type mismatch"]
    ELSE [ok |-> TRUE,
          val |-> [items |-> decode_items(bytes[1]),
                   item_bids |-> decode_item_bids(bytes[2]),
                   next_item_id |-> bytes[3]]]

\* format!("{}", e).contains("stable memory is empty") || ...contains("empty_stream")
says_empty(err) == err \in {"stable memory is empty", "empty_stream"}

pre_upgrade(st) == stable_save(st)

\* post_upgrade restoring the maps but starting the id counter afresh
post_upgrade_resets_counter(bytes) ==
    LET r == stable_restore(bytes) IN
    IF r.ok THEN [r.val EXCEPT !.next_item_id = 0] ELSE NewCanisterState

\* post_upgrade that starts afresh on every error
post_upgrade_never_traps(bytes) == FALSE

\* post_upgrade ends in ic_cdk::trap: an error that does not say "empty"
post_upgrade_traps(bytes) ==
    LET r == stable_restore(bytes) IN ~r.ok /\ ~says_empty(r.err)

\* the state post_upgrade leaves in STATE when it does not trap: the restored
\* one, or a new one when the error says stable memory is empty
post_upgrade(bytes) ==
    LET r == stable_restore(bytes) IN
    IF r.ok THEN r.val ELSE NewCanisterState

(* ------------------------------- queries --------------------------------- *)
\* BTreeMap<u64, _>::values(): the values in ascending key order
RECURSIVE values(_)
values(m) ==
    IF DOMAIN m = {} THEN <<>>
    ELSE LET k == u64_min(DOMAIN m) IN <<m[k]>> \o values(remove(m, k))

get_item(st, item_id) ==
    IF contains_key(st.items, item_id) THEN Some(st.items[item_id]) ELSE None

list_all_items(st) == values(st.items)

get_listed_items_count(st) == Cardinality(DOMAIN st.items)

\* the filter of get_most_expensive_sold_item
is_sold(item) == ~item.active /\ is_some(item.new_owner)

\* Iterator::max_by_key with the key current_highest_bid: a later element
\* replaces the running maximum unless the maximum is strictly greater
RECURSIVE max_by_key(_)
max_by_key(s) ==
    IF s = <<>> THEN None
    ELSE LET before == max_by_key(SubSeq(s, 1, Len(s) - 1))
             x == s[Len(s)]
         IN IF is_some(before)
                /\ unwrap(before).current_highest_bid > x.current_highest_bid
            THEN before ELSE Some(x)

\* a maximum search in which the first of equal maxima stays
RECURSIVE max_by_key_first_wins(_)
max_by_key_first_wins(s) ==
    IF s = <<>> THEN None
    ELSE LET before == max_by_key_first_wins(SubSeq(s, 1, Len(s) - 1))
             x == s[Len(s)]
         IN IF is_some(before)
                /\ unwrap(before).current_highest_bid >= x.current_highest_bid
            THEN before ELSE Some(x)

\* get_most_expensive_sold_item keeping the first of the equal maxima
get_most_expensive_sold_item_first_wins(st) ==
    max_by_key_first_wins(SelectSeq(values(st.items), is_sold))

get_most_expensive_sold_item(st) == max_by_key(SelectSeq(values(st.items), is_sold))

\* the loop of get_item_with_most_bids over the first n items, as the pair
\* (item_with_most_bids, max_bids_count)
RECURSIVE most_bids_loop(_, _, _)
most_bids_loop(st, s, n) ==
    IF n = 0 THEN [item_with_most_bids |-> None, max_bids_count |-> 0]
    ELSE LET acc == most_bids_loop(st, s, n - 1)
             item == s[n]
         IN IF contains_key(st.item_bids, item.id)
            THEN LET current_bids_count == Cardinality(DOMAIN st.item_bids[item.id]) IN
                 IF current_bids_count > acc.max_bids_count
                 THEN [item_with_most_bids |-> Some(item),
                       max_bids_count |-> current_bids_count]
                 ELSE acc
            ELSE acc

\* get_item_with_most_bids with `>=` where the code has `>`
get_item_with_most_bids_last_wins(st) ==
    LET s == values(st.items)
        count(item) == Cardinality(DOMAIN st.item_bids[item.id])
        best == {i \in 1..Len(s) : \A j \in 1..Len(s) : count(s[j]) <= count(s[i])}
    IN IF s = <<>> THEN None
       ELSE Some(s[CHOOSE i \in best : \A j \in best : j <= i])

get_item_with_most_bids(st) ==
    LET s == values(st.items) IN most_bids_loop(st, s, Len(s)).item_with_most_bids

\* BTreeMap<Principal, _>::values(): the values in ascending key order
RECURSIVE values_by_principal(_)
values_by_principal(m) ==
    IF DOMAIN m = {} THEN <<>>
    ELSE LET k == principal_min(DOMAIN m)
         IN <<m[k]>> \o values_by_principal(remove(m, k))

\* the bids of an item, in the ledger's key order
get_bids_for_item(st, item_id) ==
    IF contains_key(st.item_bids, item_id) THEN values_by_principal(st.item_bids[item_id])
    ELSE <<>>

get_highest_bid_for_item(st, item_id) ==
    IF ~contains_key(st.items, item_id) THEN None
    ELSE LET item == st.items[item_id] IN
         IF ~is_some(item.highest_bidder) THEN None
         ELSE LET bidder == unwrap(item.highest_bidder) IN
              IF ~contains_key(st.item_bids, item.id) THEN None
              ELSE LET bids_map == st.item_bids[item.id] IN
                   IF contains_key(bids_map, bidder) THEN Some(bids_map[bidder]) ELSE None

(* ------------------------------- actions --------------------------------- *)
\* An action below is one whole call: it locks the Mutex, runs and drops the
\* guard within the step, so it finds and leaves the Mutex unlocked. The
\* actions of SpecLocked further down take the three apart.
InFlight == {1, 2}

Init ==
    /\ state = NewCanisterState
    /\ stable = EmptyStable
    /\ phase = "running"
    /\ calls = 0
    /\ accepted = EmptyMap
    /\ returned = <<>>
    /\ stopped = EmptyMap
    /\ mutex = FALSE
    /\ pc = [c \in InFlight |-> "idle"]

\* a call that changed something uses up one unit of the call budget
Spend(changed) == calls' = IF changed THEN calls + 1 ELSE calls

ListItem ==
    /\ phase = "running"
    /\ calls < MaxCalls
    /\ state.next_item_id < MaxItems
    /\ \E caller \in Principals, name \in ListNames, description \in ListDescriptions :
         LET r == list_item(state, caller, name, description) IN
         /\ state' = r.st
         /\ returned' = Append(returned, r.res)
         /\ accepted' = insert(accepted, r.res, {})
    /\ Spend(TRUE)
    /\ UNCHANGED <<stable, phase, stopped>>
    /\ UNCHANGED <<mutex, pc>>

BidForItem ==
    /\ phase = "running"
    /\ calls < MaxCalls
    /\ \E caller \in Principals, item_id \in ItemIds, amount \in Amounts :
         LET r == bid_for_item(state, caller, item_id, amount) IN
         /\ state' = r.st
         /\ accepted' = IF r.res = Ok
                        THEN [accepted EXCEPT ![item_id] =
                                 @ \cup {[bidder |-> caller, amount |-> amount]}]
                        ELSE accepted
         /\ Spend(r.res = Ok)
    /\ UNCHANGED <<stable, phase, returned, stopped>>
    /\ UNCHANGED <<mutex, pc>>

UpdateListing ==
    /\ phase = "running"
    /\ calls < MaxCalls
    /\ \E caller \in Principals, item_id \in ItemIds,
          new_name \in OptionOf(NewNames), new_description \in OptionOf(NewDescriptions) :
         LET r == update_listing(state, caller, item_id, new_name, new_description) IN
         /\ state' = r.st
         /\ Spend(r.st # state)
    /\ UNCHANGED <<stable, phase, accepted, returned, stopped>>
    /\ UNCHANGED <<mutex, pc>>

StopListing ==
    /\ phase = "running"
    /\ calls < MaxCalls
    /\ \E caller \in Principals, item_id \in ItemIds :
         LET r == stop_listing(state, caller, item_id) IN
         /\ state' = r.st
         /\ stopped' = IF r.res = Ok
                       THEN insert(stopped, item_id, state.items[item_id].highest_bidder)
                       ELSE stopped
         /\ Spend(r.res = Ok)
    /\ UNCHANGED <<stable, phase, accepted, returned>>
    /\ UNCHANGED <<mutex, pc>>

\* the pre-shutdown hook: the old instance writes its snapshot
PreUpgrade ==
    /\ phase = "running"
    /\ calls < MaxCalls
    /\ stable' = pre_upgrade(state)
    /\ phase' = "upgrading"
    /\ Spend(TRUE)
    /\ UNCHANGED <<state, accepted, returned, stopped>>
    /\ UNCHANGED <<mutex, pc>>

\* the post-restart hook: the new instance overwrites the state from stable memory
PostUpgrade ==
    /\ phase = "upgrading"
    /\ ~post_upgrade_traps(stable)
    /\ state' = post_upgrade(stable)
    /\ phase' = "running"
    /\ UNCHANGED <<stable, calls, accepted, returned, stopped>>
    /\ UNCHANGED <<mutex, pc>>

Next ==
    \/ ListItem
    \/ BidForItem
    \/ UpdateListing
    \/ StopListing
    \/ PreUpgrade
    \/ PostUpgrade

Spec == Init /\ [][Next]_vars

(* ---- the canister upgraded from an earlier version ----------------------- *)
\* The new instance starts with the STATE initialiser and runs post_upgrade
\* on whatever the earlier version left in stable memory.
LeftInStable ==
    {EmptyStable, UnwrittenStable, ForeignStable,
     stable_save(NewCanisterState),
     stable_save(list_item(NewCanisterState, "O1", "Vase", "old").st)}

InitUpgraded ==
    /\ state = NewCanisterState
    /\ stable \in LeftInStable
    /\ phase = "upgrading"
    /\ calls = 0
    /\ LET n == IF stable_restore(stable).ok
                THEN stable_restore(stable).val.next_item_id ELSE 0
       IN /\ accepted = [id \in 0..(n - 1) |-> {}]
          /\ returned = [i \in 1..n |-> i - 1]
    /\ stopped = EmptyMap
    /\ mutex = FALSE
    /\ pc = [c \in InFlight |-> "idle"]

\* post_upgrade traps: the instance does not come up, and takes no call
PostUpgradeTrap ==
    /\ phase = "upgrading"
    /\ post_upgrade_traps(stable)
    /\ phase' = "trapped"
    /\ UNCHANGED <<state, stable, calls, accepted, returned, stopped>>
    /\ UNCHANGED <<mutex, pc>>

NextUpgraded ==
    \/ PostUpgrade
    \/ PostUpgradeTrap
    \/ ListItem
    \/ BidForItem
    \/ UpdateListing
    \/ StopListing
    \/ PreUpgrade

SpecUpgraded == InitUpgraded /\ [][NextUpgraded]_vars

(* ---- calls in flight: the Mutex ------------------------------------------ *)
\* Up to two calls are in flight. A call enters its handler and reaches
\* state_mutex.lock(); it gets the guard when the Mutex is unlocked; the
\* handler's closure then runs and the guard is dropped where it ends. Which
\* handler a call runs, and its arguments, are drawn when the closure runs.
\* The upgrade hooks run when no other call is in flight.

\* a guard that is dropped only where the handler returns Ok
drop_guard_on_ok(res) == res = Ok

\* the MutexGuard `state` goes out of scope at the end of the closure,
\* whatever the closure returns
drop_guard(res) == TRUE

Others(c) == InFlight \ {c}
Alone(c) == \A d \in Others(c) : pc[d] = "idle"

\* the closure is over: the guard is dropped, the call returns
Return(c, res) ==
    /\ pc' = [pc EXCEPT ![c] = "idle"]
    /\ mutex' = ~drop_guard(res)

Enter ==
    \E c \in InFlight :
        /\ pc[c] = "idle"
        /\ phase = "upgrading" => Alone(c)
        /\ pc' = [pc EXCEPT ![c] = "lock"]
        /\ UNCHANGED <<state, stable, phase, calls, accepted, returned, stopped, mutex>>

\* state_mutex.lock() returns the guard; it blocks while the Mutex is locked
Lock ==
    \E c \in InFlight :
        /\ pc[c] = "lock"
        /\ ~mutex
        /\ mutex' = TRUE
        /\ pc' = [pc EXCEPT ![c] = "held"]
        /\ UNCHANGED <<state, stable, phase, calls, accepted, returned, stopped>>

ListItemLocked ==
    \E c \in InFlight :
        /\ pc[c] = "held"
        /\ phase = "running"
        /\ calls < MaxLockedCalls
        /\ state.next_item_id < MaxItems
        /\ \E caller \in Principals, name \in ListNames, description \in ListDescriptions :
             LET r == list_item(state, caller, name, description) IN
             /\ state' = r.st
             /\ returned' = Append(returned, r.res)
             /\ accepted' = insert(accepted, r.res, {})
             /\ Return(c, Ok)
        /\ Spend(TRUE)
        /\ UNCHANGED <<stable, phase, stopped>>

BidForItemLocked ==
    \E c \in InFlight :
        /\ pc[c] = "held"
        /\ phase = "running"
        /\ \E caller \in Principals, item_id \in ItemIds, amount \in Amounts :
             LET r == bid_for_item(state, caller, item_id, amount) IN
             /\ r.res = Ok => calls < MaxLockedCalls
             /\ state' = r.st
             /\ accepted' = IF r.res = Ok
                            THEN [accepted EXCEPT ![item_id] =
                                     @ \cup {[bidder |-> caller, amount |-> amount]}]
                            ELSE accepted
             /\ Spend(r.res = Ok)
             /\ Return(c, r.res)
        /\ UNCHANGED <<stable, phase, returned, stopped>>

UpdateListingLocked ==
    \E c \in InFlight :
        /\ pc[c] = "held"
        /\ phase = "running"
        /\ \E caller \in Principals, item_id \in ItemIds,
              new_name \in OptionOf(NewNames), new_description \in OptionOf(NewDescriptions) :
             LET r == update_listing(state, caller, item_id, new_name, new_description) IN
             /\ r.st # state => calls < MaxLockedCalls
             /\ state' = r.st
             /\ Spend(r.st # state)
             /\ Return(c, r.res)
        /\ UNCHANGED <<stable, phase, accepted, returned, stopped>>

StopListingLocked ==
    \E c \in InFlight :
        /\ pc[c] = "held"
        /\ phase = "running"
        /\ \E caller \in Principals, item_id \in ItemIds :
             LET r == stop_listing(state, caller, item_id) IN
             /\ r.res = Ok => calls < MaxLockedCalls
             /\ state' = r.st
             /\ stopped' = IF r.res = Ok
                           THEN insert(stopped, item_id, state.items[item_id].highest_bidder)
                           ELSE stopped
             /\ Spend(r.res = Ok)
             /\ Return(c, r.res)
        /\ UNCHANGED <<stable, phase, accepted, returned>>

\* the five queries: they read under the guard and change nothing
QueryLocked ==
    \E c \in InFlight :
        /\ pc[c] = "held"
        /\ phase = "running"
        /\ Return(c, Ok)
        /\ UNCHANGED <<state, stable, phase, calls, accepted, returned, stopped>>

PreUpgradeLocked ==
    \E c \in InFlight :
        /\ pc[c] = "held"
        /\ Alone(c)
        /\ phase = "running"
        /\ calls < MaxLockedCalls
        /\ stable' = pre_upgrade(state)
        /\ phase' = "upgrading"
        /\ Spend(TRUE)
        /\ Return(c, Ok)
        /\ UNCHANGED <<state, accepted, returned, stopped>>

PostUpgradeLocked ==
    \E c \in InFlight :
        /\ pc[c] = "held"
        /\ phase = "upgrading"
        /\ ~post_upgrade_traps(stable)
        /\ state' = post_upgrade(stable)
        /\ phase' = "running"
        /\ Return(c, Ok)
        /\ UNCHANGED <<stable, calls, accepted, returned, stopped>>

NextLocked ==
    \/ Enter
    \/ Lock
    \/ ListItemLocked
    \/ BidForItemLocked
    \/ UpdateListingLocked
    \/ StopListingLocked
    \/ QueryLocked
    \/ PreUpgradeLocked
    \/ PostUpgradeLocked

SpecLocked == Init /\ [][NextLocked]_vars

(* ---- sales of one lister, without a call budget -------------------------- *)
\* The items are listed by O1 and are not renamed, and there is no upgrade;
\* any caller bids any amount and stops, and MaxItems and MaxAmount alone
\* bound the behaviours, so that every item can be bid on and sold.
Listers == {"O1"}

ListForSale ==
    /\ phase = "running"
    /\ state.next_item_id < MaxItems
    /\ \E caller \in Listers, name \in ListNames, description \in ListDescriptions :
         LET r == list_item(state, caller, name, description) IN
         /\ state' = r.st
         /\ returned' = Append(returned, r.res)
         /\ accepted' = insert(accepted, r.res, {})
    /\ UNCHANGED <<stable, phase, calls, stopped>>
    /\ UNCHANGED <<mutex, pc>>

BidOnSale ==
    /\ phase = "running"
    /\ \E caller \in Principals, item_id \in ItemIds, amount \in Amounts :
         LET r == bid_for_item(state, caller, item_id, amount) IN
         /\ state' = r.st
         /\ accepted' = IF r.res = Ok
                        THEN [accepted EXCEPT ![item_id] =
                                 @ \cup {[bidder |-> caller, amount |-> amount]}]
                        ELSE accepted
    /\ UNCHANGED <<stable, phase, calls, returned, stopped>>
    /\ UNCHANGED <<mutex, pc>>

StopSale ==
    /\ phase = "running"
    /\ \E caller \in Principals, item_id \in ItemIds :
         LET r == stop_listing(state, caller, item_id) IN
         /\ state' = r.st
         /\ stopped' = IF r.res = Ok
                       THEN insert(stopped, item_id, state.items[item_id].highest_bidder)
                       ELSE stopped
    /\ UNCHANGED <<stable, phase, calls, accepted, returned>>
    /\ UNCHANGED <<mutex, pc>>

NextSales ==
    \/ ListForSale
    \/ BidOnSale
    \/ StopSale

SpecSales == Init /\ [][NextSales]_vars

(* ========================================================================= *)
(*                               properties                                  *)
(* ========================================================================= *)
ItemsListed == DOMAIN state.items
Item(id) == state.items[id]
Ledger(id) == state.item_bids[id]
MaxAmountOf(bids) ==
    IF bids = {} THEN 0
    ELSE CHOOSE a \in {b.amount : b \in bids} : \A b \in bids : b.amount <= a

(* ---- C1 ---- *)
HighestBidIsMaxAccepted ==
    \A id \in ItemsListed :
        /\ Item(id).current_highest_bid = MaxAmountOf(accepted[id])
        /\ accepted[id] = {} => Item(id).highest_bidder = None
        /\ \A b \in accepted[id] :
              b.amount = Item(id).current_highest_bid
                  => Item(id).highest_bidder = Some(b.bidder)

HighestBidNeverDecreases ==
    \A id \in ItemsListed :
        /\ id \in DOMAIN state'.items
        /\ state'.items[id].current_highest_bid >= Item(id).current_highest_bid

\* C1: for every item, current_highest_bid never decreases from one state to
\* the next, it is the maximum amount over the bids accepted so far for the
\* item (0 if none), and highest_bidder is the caller of that maximum bid
\* (None if none).
C1_HighestBid == [](HighestBidIsMaxAccepted) /\ [][HighestBidNeverDecreases]_vars

\* two bidders had a bid accepted on one item; the later, higher one leads
C1_Witness ==
    \E id \in ItemsListed :
        /\ {b.bidder : b \in accepted[id]} = {"B1", "B2"}
        /\ Item(id).current_highest_bid = 2
        /\ Item(id).highest_bidder = Some("B2")

(* ---- C2 ---- *)
\* C2 as stated: for every existing item, in every item state, and for every
\* amount, a bid by the item's owner fails with SelfBid and no other error.
C2_OwnerBidAlwaysSelfBid ==
    \A id \in ItemsListed : \A amount \in Amounts :
        bid_for_item(state, Item(id).owner, id, amount).res = SelfBid

\* C2 amended: a bid by the item's owner is always rejected and changes
\* nothing; the error is SelfBid while the item is active (with or without
\* bids) and InactiveAuction once the item is stopped.
C2_OwnerBidRejected ==
    \A id \in ItemsListed : \A amount \in Amounts :
        LET r == bid_for_item(state, Item(id).owner, id, amount) IN
        /\ r.res = IF Item(id).active THEN SelfBid ELSE InactiveBid
        /\ r.st = state

\* an active item with bids and a stopped item exist at once
C2_Witness ==
    /\ \E id \in ItemsListed : Item(id).active /\ accepted[id] # {}
    /\ \E id \in ItemsListed : ~Item(id).active

(* ---- C3 ---- *)
\* C3 as stated: once stop_listing succeeded on an item, a later stop_listing
\* on it by any caller fails with AlreadyStopped and leaves active and
\* new_owner as the first stop set them.
C3_SecondStopAlwaysAlreadyStopped ==
    \A id \in DOMAIN stopped : \A caller \in Principals :
        LET r == stop_listing(state, caller, id) IN
        /\ r.res = AlreadyStopped
        /\ r.st.items[id].active = FALSE
        /\ r.st.items[id].new_owner = stopped[id]

\* C3 amended: once stop_listing succeeded on an item, a later stop_listing
\* on it fails with AlreadyStopped when the caller is the owner and with
\* NotOwner for any other caller; either way active and new_owner are as the
\* first stop set them.
C3_SecondStopFails ==
    \A id \in DOMAIN stopped : \A caller \in Principals :
        LET r == stop_listing(state, caller, id) IN
        /\ r.res = IF caller = Item(id).owner THEN AlreadyStopped ELSE NotOwnerStop
        /\ r.st.items[id].active = FALSE
        /\ r.st.items[id].new_owner = stopped[id]

\* an item was stopped with a highest bidder, and its owner stops it again
C3_Witness ==
    \E id \in DOMAIN stopped :
        /\ stopped[id] # None
        /\ stop_listing(state, Item(id).owner, id).res = AlreadyStopped

(* ---- C4 ---- *)
\* C4: pre_upgrade immediately followed by post_upgrade gives back the
\* aggregate that was saved: the same items, the same bid ledgers and the
\* same next_item_id.
C4_SaveRestoreRoundTrip ==
    [][(phase = "upgrading" /\ phase' = "running") => state' = state]_vars

\* post_upgrade has just restored an aggregate holding an item with a
\* highest bidder and the bids of two bidders in its ledger
C4_Witness ==
    /\ phase = "running"
    /\ stable # EmptyStable
    /\ stable = stable_save(state)
    /\ \E id \in ItemsListed :
          /\ is_some(Item(id).highest_bidder)
          /\ DOMAIN Ledger(id) = {"B1", "B2"}

(* ---- C5 ---- *)
ReturnedIdsDistinct ==
    \A i, j \in 1..Len(returned) : i # j => returned[i] # returned[j]

NextItemIdNeverDecremented == state'.next_item_id >= state.next_item_id

\* C5: over any sequence of operations, with pre_upgrade/post_upgrade cycles
\* between them, list_item never returns an id an earlier list_item returned,
\* and next_item_id is never decremented.
C5_MonotonicIds == [](ReturnedIdsDistinct) /\ [][NextItemIdNeverDecremented]_vars

\* one id was handed out before an upgrade and a second one after it
C5_Witness ==
    /\ phase = "running"
    /\ stable # EmptyStable
    /\ stable[3] = 1
    /\ Len(returned) = 2

(* ---- C6 ---- *)
\* C6: whenever bid_for_item, update_listing or stop_listing returns an
\* error, the whole aggregate (items, bid ledgers, next_item_id) is as it was
\* before the call.
C6_ErrorsLeaveStateUnchanged ==
    \A caller \in Principals, item_id \in ItemIds :
        /\ \A amount \in Amounts :
              LET r == bid_for_item(state, caller, item_id, amount) IN
              /\ r.res \in Errors \cup {Ok}
              /\ r.res \in Errors => r.st = state
        /\ \A new_name \in OptionOf(NewNames),
              new_description \in OptionOf(NewDescriptions) :
              LET r == update_listing(state, caller, item_id, new_name, new_description) IN
              /\ r.res \in Errors \cup {Ok}
              /\ r.res \in Errors => r.st = state
        /\ LET r == stop_listing(state, caller, item_id) IN
              /\ r.res \in Errors \cup {Ok}
              /\ r.res \in Errors => r.st = state

\* the errors the three calls can return in the current state
ErrorsOffered ==
    Errors \cap
    UNION {   {bid_for_item(state, caller, item_id, amount).res : amount \in Amounts}
         \cup {update_listing(state, caller, item_id, None, None).res}
         \cup {stop_listing(state, caller, item_id).res}
         : caller \in Principals, item_id \in ItemIds}

\* a state (an active item with a bid and a stopped item) in which every one
\* of the errors is returned to some caller
C6_Witness == ErrorsOffered = Errors

(* ---- C7 ---- *)
\* C7: bid_for_item checks item exists, item active, caller is not the owner,
\* amount > current_highest_bid, in this order, and returns the error of the
\* first check that fails; an amount equal to current_highest_bid (0 on an
\* item without bids included) is BidTooLow; the bid succeeds exactly when all
\* four checks pass.
C7_BidCheckOrder ==
    \A caller \in Principals, item_id \in ItemIds, amount \in Amounts :
        LET res == bid_for_item(state, caller, item_id, amount).res
            exists == item_id \in ItemsListed
            active == exists /\ Item(item_id).active
            other == active /\ caller # Item(item_id).owner
            higher == other /\ amount > Item(item_id).current_highest_bid
        IN /\ (res = NotFound) <=> ~exists
           /\ (res = InactiveBid) <=> (exists /\ ~active)
           /\ (res = SelfBid) <=> (active /\ ~other)
           /\ (res = BidTooLow) <=> (other /\ ~higher)
           /\ (res = Ok) <=> higher
           /\ (other /\ amount = Item(item_id).current_highest_bid) => res = BidTooLow

\* an item with an accepted bid on which the same amount is bid again
C7_Witness ==
    \E id \in ItemsListed : \E caller \in Principals :
        /\ Item(id).current_highest_bid >= 1
        /\ bid_for_item(state, caller, id, Item(id).current_highest_bid).res = BidTooLow

(* ---- C8 ---- *)
\* C8: new_owner is None for every active item; a successful stop_listing
\* sets active = false and new_owner to highest_bidder as it is then; in every
\* later state of the stopped item new_owner = highest_bidder, both with the
\* value they had when the item was stopped.
C8_NewOwnerSnapshot ==
    \A id \in ItemsListed :
        /\ Item(id).active =>
              /\ Item(id).new_owner = None
              /\ id \notin DOMAIN stopped
              /\ LET r == stop_listing(state, Item(id).owner, id) IN
                    /\ r.res = Ok
                    /\ r.st.items[id].active = FALSE
                    /\ r.st.items[id].new_owner = Item(id).highest_bidder
        /\ ~Item(id).active =>
              /\ id \in DOMAIN stopped
              /\ Item(id).new_owner = stopped[id]
              /\ Item(id).highest_bidder = stopped[id]

\* an item stopped with B2 leading, seen again after a later upgrade
C8_Witness ==
    /\ phase = "running"
    /\ stable # EmptyStable
    /\ \E id \in ItemsListed :
          /\ ~Item(id).active
          /\ stopped[id] = Some("B2")
          /\ Item(id).new_owner = Some("B2")

(* ---- C9 ---- *)
\* a stopped item and its ledger are the same in the next state
StoppedItemFrozen ==
    \A id \in ItemsListed :
        ~Item(id).active =>
            /\ id \in DOMAIN state'.items
            /\ state'.items[id] = Item(id)
            /\ state'.item_bids[id] = Ledger(id)

\* a step that clears active is a successful stop_listing by the owner
OnlyStopDeactivates ==
    \A id \in ItemsListed :
        (Item(id).active /\ ~state'.items[id].active) =>
            LET r == stop_listing(state, Item(id).owner, id) IN
            r.res = Ok /\ state' = r.st

\* no call changes a stopped item or its ledger, and a bid on it by someone
\* else than the owner is InactiveAuction for every amount
StoppedItemRejectsCalls ==
    \A id \in ItemsListed :
        ~Item(id).active =>
            \A caller \in Principals, item_id \in ItemIds :
                LET same(st) == st.items[id] = Item(id) /\ st.item_bids[id] = Ledger(id) IN
                /\ \A amount \in Amounts :
                      LET r == bid_for_item(state, caller, item_id, amount) IN
                      /\ same(r.st)
                      /\ (item_id = id /\ caller # Item(id).owner) => r.res = InactiveBid
                /\ \A new_name \in OptionOf(NewNames),
                      new_description \in OptionOf(NewDescriptions) :
                      same(update_listing(state, caller, item_id,
                                          new_name, new_description).st)
                /\ same(stop_listing(state, caller, item_id).st)

\* C9: once active is false it is never true again; only a successful
\* stop_listing by the owner turns active from true to false; after the stop
\* no bid_for_item, update_listing or stop_listing changes a field of the item
\* or an entry of its ledger, and a bid by a non-owner on it fails with
\* InactiveAuction whatever the amount.
C9_InactiveIsTerminal ==
    [](StoppedItemRejectsCalls) /\ [][StoppedItemFrozen /\ OnlyStopDeactivates]_vars

\* a stopped item with bids, on which a bid above the highest is still refused
C9_Witness ==
    \E id \in ItemsListed : \E caller \in Principals :
        /\ ~Item(id).active
        /\ Ledger(id) # EmptyMap
        /\ Item(id).current_highest_bid < MaxAmount
        /\ bid_for_item(state, caller, id, MaxAmount).res = InactiveBid

(* ---- C10 ---- *)
\* C10: update_listing succeeds only for the owner of an active item;
\* otherwise NotFound for an unknown id, NotOwner for a non-owner (item active
\* or stopped), InactiveAuction for the owner of a stopped item. On success
\* only name and description of that item may change, a field passed as None
\* keeps its value, and everything else in the aggregate is unchanged.
C10_UpdateListing ==
    \A caller \in Principals, item_id \in ItemIds,
       new_name \in OptionOf(NewNames), new_description \in OptionOf(NewDescriptions) :
        LET r == update_listing(state, caller, item_id, new_name, new_description)
            exists == item_id \in ItemsListed
            owner == exists /\ caller = Item(item_id).owner
            active == exists /\ Item(item_id).active
        IN /\ (r.res = Ok) <=> (owner /\ active)
           /\ ~exists => r.res = NotFound
           /\ (exists /\ ~owner) => r.res = NotOwnerUpdate
           /\ (owner /\ ~active) => r.res = InactiveUpdate
           /\ r.res # Ok => r.st = state
           /\ r.res = Ok =>
                LET old == Item(item_id)
                    new == r.st.items[item_id]
                IN /\ new.name = IF new_name = None THEN old.name ELSE new_name[1]
                   /\ new.description = IF new_description = None THEN old.description
                                        ELSE new_description[1]
                   /\ new.id = old.id /\ new.owner = old.owner /\ new.active = old.active
                   /\ new.current_highest_bid = old.current_highest_bid
                   /\ new.highest_bidder = old.highest_bidder
                   /\ new.new_owner = old.new_owner
                   /\ DOMAIN r.st.items = ItemsListed
                   /\ \A id \in ItemsListed \ {item_id} : r.st.items[id] = Item(id)
                   /\ r.st.item_bids = state.item_bids
                   /\ r.st.next_item_id = state.next_item_id

\* one item was renamed with its description kept, next to an untouched item
C10_Witness ==
    \E id, id2 \in ItemsListed :
        /\ Item(id).name \in NewNames
        /\ Item(id).description \in ListDescriptions
        /\ Item(id).current_highest_bid >= 1
        /\ Item(id2).name \in ListNames

(* ---- C12 ---- *)
\* C12: for every item, the owner is not a key of the item's bid ledger, is
\* not the bidder of an entry in it, and is neither highest_bidder nor
\* new_owner of the item.
C12_OwnerNeverBidder ==
    \A id \in ItemsListed :
        /\ Item(id).owner \notin DOMAIN Ledger(id)
        /\ \A k \in DOMAIN Ledger(id) : Ledger(id)[k].bidder # Item(id).owner
        /\ Item(id).highest_bidder # Some(Item(id).owner)
        /\ Item(id).new_owner # Some(Item(id).owner)

\* a stopped item that went to a bidder, on which the owner's bid was refused
C12_Witness ==
    \E id \in ItemsListed :
        /\ is_some(Item(id).new_owner)
        /\ DOMAIN Ledger(id) # {}
        /\ bid_for_item(state, Item(id).owner, id, MaxAmount).res \in Errors

(* ---- C13 ---- *)
SoldItems == {id \in ItemsListed : is_sold(Item(id))}
TopSoldItems ==
    {id \in SoldItems : \A other \in SoldItems :
        Item(other).current_highest_bid <= Item(id).current_highest_bid}

\* C13 as stated: get_most_expensive_sold_item is None when no item is both
\* inactive and has new_owner set; otherwise it is a sold item of maximal
\* current_highest_bid, the one with the smallest id among them.
C13_MostExpensiveFirstWins ==
    LET r == get_most_expensive_sold_item(state) IN
    /\ (r = None) <=> (SoldItems = {})
    /\ SoldItems # {} =>
          /\ unwrap(r).id \in TopSoldItems
          /\ unwrap(r) = Item(unwrap(r).id)
          /\ \A id \in TopSoldItems : unwrap(r).id <= id

\* C13 amended: get_most_expensive_sold_item is None when no item is both
\* inactive and has new_owner set; otherwise it is a sold item of maximal
\* current_highest_bid, and among several of them the last one in iteration
\* (ascending id) order, the one with the largest id.
C13_MostExpensiveLastWins ==
    LET r == get_most_expensive_sold_item(state) IN
    /\ (r = None) <=> (SoldItems = {})
    /\ SoldItems # {} =>
          /\ unwrap(r).id \in TopSoldItems
          /\ unwrap(r) = Item(unwrap(r).id)
          /\ \A id \in TopSoldItems : id <= unwrap(r).id

\* two items sold for the same amount: the second one is returned
C13_Witness ==
    /\ Cardinality(TopSoldItems) >= 2
    /\ unwrap(get_most_expensive_sold_item(state)).id = 1

(* ---- C14 ---- *)
BidCount(id) == Cardinality(DOMAIN Ledger(id))
MostBidItems ==
    {id \in ItemsListed : \A other \in ItemsListed : BidCount(other) <= BidCount(id)}

\* C14 as stated: get_item_with_most_bids is the item with the largest ledger,
\* the smallest id among the items tied for it; an item with an empty ledger
\* is not returned while some ledger is non-empty; and when items exist but
\* all ledgers are empty it still returns an item, the first in id order.
C14_MostBidsAlwaysAnItem ==
    LET r == get_item_with_most_bids(state) IN
    /\ (r = None) <=> (ItemsListed = {})
    /\ ItemsListed # {} =>
          /\ unwrap(r).id \in MostBidItems
          /\ unwrap(r) = Item(unwrap(r).id)
          /\ \A id \in MostBidItems : unwrap(r).id <= id

\* C14 amended: get_item_with_most_bids is the item with the largest ledger,
\* the smallest id among the items tied for it; an item with an empty ledger
\* is never returned, so when no item exists or all ledgers are empty the
\* result is absent.
C14_MostBids ==
    LET r == get_item_with_most_bids(state) IN
    /\ (r = None) <=> (\A id \in ItemsListed : BidCount(id) = 0)
    /\ r # None =>
          /\ unwrap(r).id \in MostBidItems
          /\ unwrap(r) = Item(unwrap(r).id)
          /\ BidCount(unwrap(r).id) >= 1
          /\ \A id \in MostBidItems : unwrap(r).id <= id

\* two items with as many bids each: the first is returned
C14_Witness ==
    /\ Cardinality(MostBidItems) >= 2
    /\ \A id \in MostBidItems : BidCount(id) >= 1
    /\ unwrap(get_item_with_most_bids(state)).id = 0

(* ---- C15 ---- *)
\* C15: get_highest_bid_for_item(id) is absent exactly when the item does not
\* exist or no bid was accepted for it; otherwise it is the ledger entry of
\* the item's highest_bidder, whose bidder is item.highest_bidder and whose
\* amount is item.current_highest_bid.
C15_HighestBidQuery ==
    \A item_id \in ItemIds :
        LET r == get_highest_bid_for_item(state, item_id) IN
        /\ (r = None) <=> (item_id \notin ItemsListed \/ accepted[item_id] = {})
        /\ r # None =>
              /\ Item(item_id).highest_bidder = Some(unwrap(r).bidder)
              /\ unwrap(r) = Ledger(item_id)[unwrap(r).bidder]
              /\ unwrap(r).amount = Item(item_id).current_highest_bid

\* B1 was outbid by B2: the query answers with B2's entry
C15_Witness ==
    \E id \in ItemsListed :
        /\ DOMAIN Ledger(id) = {"B1", "B2"}
        /\ get_highest_bid_for_item(state, id) = Some([bidder |-> "B2", amount |-> 2])

(* ---- C17 ---- *)
\* C17: list_item succeeds for any caller in any state: it returns the value
\* next_item_id had, increases next_item_id by exactly 1, inserts an item with
\* that id, owner = caller, active = true, current_highest_bid = 0,
\* highest_bidder = None, new_owner = None and an empty bid ledger for the id,
\* and leaves every item and ledger that existed unchanged.
C17_ListItem ==
    \A caller \in Principals, name \in ListNames \cup NewNames,
       description \in ListDescriptions \cup NewDescriptions :
        LET r == list_item(state, caller, name, description) IN
        /\ r.res = state.next_item_id
        /\ r.st.next_item_id = state.next_item_id + 1
        /\ DOMAIN r.st.items = ItemsListed \cup {r.res}
        /\ DOMAIN r.st.item_bids = DOMAIN state.item_bids \cup {r.res}
        /\ r.st.items[r.res] =
              [id |-> r.res, owner |-> caller, name |-> name,
               description |-> description, current_highest_bid |-> 0,
               highest_bidder |-> None, active |-> TRUE, new_owner |-> None]
        /\ r.st.item_bids[r.res] = EmptyMap
        /\ \A id \in ItemsListed : r.st.items[id] = Item(id)
        /\ \A id \in DOMAIN state.item_bids : r.st.item_bids[id] = Ledger(id)

\* a second item was listed after the first one had received a bid
C17_Witness ==
    /\ returned = <<0, 1>>
    /\ accepted[0] # {}
    /\ Item(0).current_highest_bid >= 1
    /\ Item(1).current_highest_bid = 0
    /\ Ledger(1) = EmptyMap

(* ---- C18 ---- *)
AcceptedFrom(id, bidder) == {b \in accepted[id] : b.bidder = bidder}

\* one entry per bidder who had a bid accepted, under the bidder's identity
LedgerKeyedByBidder ==
    \A id \in ItemsListed :
        /\ DOMAIN Ledger(id) = {b.bidder : b \in accepted[id]}
        /\ \A k \in DOMAIN Ledger(id) :
              /\ Ledger(id)[k].bidder = k
              \* accepted amounts rise, so the latest accepted bid is the largest
              /\ Ledger(id)[k].amount = MaxAmountOf(AcceptedFrom(id, k))

\* a step that accepts a bid puts it in the bidder's entry, above the amount
\* the entry had; other steps and other entries leave the ledger as it is
LedgerTakesLatestBid ==
    \A id \in ItemsListed :
        IF accepted'[id] = accepted[id]
        THEN state'.item_bids[id] = Ledger(id)
        ELSE \E b \in accepted'[id] \ accepted[id] :
                /\ accepted'[id] = accepted[id] \cup {b}
                /\ state'.item_bids[id] = insert(Ledger(id), b.bidder, b)
                /\ b.amount > Item(id).current_highest_bid
                /\ b.bidder \in DOMAIN Ledger(id)
                      => Ledger(id)[b.bidder].amount < b.amount

\* C18: a ledger holds at most one entry per bidder, keyed by the bidder with
\* entry.bidder equal to the key; its amount is that of the bidder's most
\* recent accepted bid on the item, and every replacement of an entry strictly
\* increases its amount.
C18_LedgerLatestBid == [](LedgerKeyedByBidder) /\ [][LedgerTakesLatestBid]_vars

\* B1 bid 1 and then 2 on one item: one entry, with amount 2
C18_Witness ==
    \E id \in ItemsListed :
        /\ AcceptedFrom(id, "B1") = {[bidder |-> "B1", amount |-> 1],
                                     [bidder |-> "B1", amount |-> 2]}
        /\ Ledger(id) = [k \in {"B1"} |-> [bidder |-> "B1", amount |-> 2]]

(* ---- C19 ---- *)
ItemsAreZeroToNext ==
    /\ ItemsListed = 0..(state.next_item_id - 1)
    /\ DOMAIN state.item_bids = ItemsListed
    /\ \A id \in ItemsListed : Item(id).id = id
    /\ get_listed_items_count(state) = state.next_item_id
    /\ get_listed_items_count(state) = Len(returned)
    /\ LET all == list_all_items(state) IN
          /\ Len(all) = state.next_item_id
          /\ \A i \in 1..Len(all) : all[i] = Item(i - 1)

NoItemRemoved == ItemsListed \subseteq DOMAIN state'.items

\* C19: the keys of items and of item_bids are both {0, ..., next_item_id - 1};
\* an item's id is its key; no item is ever removed; so
\* get_listed_items_count() is next_item_id and the number of list_item calls
\* so far, and list_all_items() is in ascending id order.
C19_ItemKeys == [](ItemsAreZeroToNext) /\ [][NoItemRemoved]_vars

\* two items listed, one before and one after an upgrade
C19_Witness ==
    /\ phase = "running"
    /\ stable # EmptyStable
    /\ stable[3] = 1
    /\ get_listed_items_count(state) = 2
    /\ list_all_items(state)[2].id = 1

(* ---- C20 ---- *)
\* C20: for every item, the ledger is empty iff highest_bidder is None iff
\* current_highest_bid = 0; every entry has 1 <= amount <= current_highest_bid
\* and exactly one entry, the highest_bidder's, has amount =
\* current_highest_bid; for an inactive item new_owner is set iff the ledger is
\* non-empty, so an item stopped without bids has new_owner = None and is not
\* what get_most_expensive_sold_item returns.
C20_LedgerAndItemAgree ==
    \A id \in ItemsListed :
        LET item == Item(id)
            top == {k \in DOMAIN Ledger(id) :
                       Ledger(id)[k].amount = item.current_highest_bid}
        IN /\ (Ledger(id) = EmptyMap) <=> (item.highest_bidder = None)
           /\ (item.highest_bidder = None) <=> (item.current_highest_bid = 0)
           /\ \A k \in DOMAIN Ledger(id) :
                 /\ Ledger(id)[k].amount >= 1
                 /\ Ledger(id)[k].amount <= item.current_highest_bid
           /\ Ledger(id) # EmptyMap =>
                 /\ Cardinality(top) = 1
                 /\ item.highest_bidder = Some(CHOOSE k \in top : TRUE)
           /\ ~item.active =>
                 /\ is_some(item.new_owner) <=> (Ledger(id) # EmptyMap)
                 /\ Ledger(id) = EmptyMap =>
                       /\ item.new_owner = None
                       /\ get_most_expensive_sold_item(state) # Some(item)

\* one item stopped without bids and one sold: the query returns the sold one
C20_Witness ==
    /\ \E id \in ItemsListed : ~Item(id).active /\ Ledger(id) = EmptyMap
    /\ \E id \in ItemsListed :
          /\ DOMAIN Ledger(id) = {"B1", "B2"}
          /\ get_most_expensive_sold_item(state) = Some(Item(id))

(* ---- C11 ---- *)
NoSnapshot(bytes) == bytes \in {EmptyStable, UnwrittenStable}
Undecodable(bytes) == ~NoSnapshot(bytes) /\ ~is_snapshot(bytes)

PostUpgradeOutcome ==
    phase = "upgrading" =>
        /\ NoSnapshot(stable) => (phase' = "running" /\ state' = NewCanisterState)
        /\ Undecodable(stable) => (phase' = "trapped" /\ state' = state)

C11_WitnessEmpty ==
    /\ phase = "running"
    /\ stable = EmptyStable
    /\ calls = 0
    /\ state = NewCanisterState

(* ---- C16 ---- *)
Holders == {c \in InFlight : pc[c] = "held"}
Waiting == {c \in InFlight : pc[c] = "lock"}

\* at most one call is inside its closure, and the Mutex is locked exactly
\* while one is
ExclusiveAccess ==
    /\ Cardinality(Holders) <= 1
    /\ mutex <=> Holders # {}

\* the step of a closure: the one holder, and nobody else, takes it, and it
\* leaves the Mutex unlocked, whatever the result
ClosureStep ==
    state' # state \/ stable' # stable \/ calls' # calls \/ phase' # phase

HolderRunsAndReleases ==
    /\ ClosureStep => \E c \in Holders : pc'[c] = "idle"
    /\ (\E c \in Holders : pc'[c] = "idle") => ~mutex'

\* C16: every handler and both hooks hold the Mutex for their whole closure,
\* so no two of them interleave; the guard is dropped where the closure ends,
\* on each error return too, so the Mutex is never locked with no call
\* holding it, and a call that waits for it can lock it once the holder is
\* done.
C16_ExclusiveAccess ==
    /\ [](ExclusiveAccess /\ (Waiting # {} /\ Holders = {} => ~mutex))
    /\ [][HolderRunsAndReleases]_vars

\* a call has listed item 0 and returned, and the other call holds the Mutex
C16_Witness ==
    /\ calls = 1
    /\ 0 \in ItemsListed
    /\ pc[1] = "idle"
    /\ pc[2] = "held"
    /\ mutex

====
